---- MODULE Spec2Model ----
(***************************************************************************)
(* A model of the proof relay service of src/index.ts: the file cache      *)
(* (generateCacheKey, readCache, writeCache), the signer (createSignature),*)
(* the proof requester (generateProof) and the four HTTP handlers.  Each   *)
(* handler is an async function: it runs atomically from one await of an   *)
(* external call (axios.get, zkFetch, verifySignedProof,                   *)
(* transformForOnchain) to the next, so a request is a small process whose *)
(* pc names the external call it is suspended at, and requests interleave  *)
(* at those points only.  When generateProof returns, the handler that     *)
(* awaits it resumes in the same turn of the event loop (a promise         *)
(* continuation, which runs before any other I/O completion is delivered). *)
(***************************************************************************)
EXTENDS Integers, Sequences, FiniteSets, TLC

VARIABLES
    cache,      \* the files of cacheDir: file name -> file text
    reqs,       \* the requests received so far, in order of arrival
    writeLog    \* history of the writeCache calls: <<[key, data, req], ...>>

vars == <<cache, reqs, writeLog>>

(***************************************************************************)
(* Bounds of the model.                                                    *)
(***************************************************************************)
MaxReq == 2         \* requests received in one behaviour
ServerSkew == 10    \* exchange server time minus local time

(***************************************************************************)
(* Values.                                                                 *)
(***************************************************************************)
Undefined == "undefined"    \* a missing body field
Null == [null |-> TRUE]     \* JavaScript null
None == [none |-> TRUE]     \* not set yet / nothing sent

ApiSecrets == {"s", Undefined}

\* Request bodies.  The first two trade bodies are different triples with the
\* same concatenation api_key + symbol + order_id, the third has another
\* concatenation, the fourth lacks api_secret.
TradeBodies ==
    {[api_key |-> "k", api_secret |-> "s", symbol |-> "B", order_id |-> "12"],
     [api_key |-> "k", api_secret |-> "s", symbol |-> "B1", order_id |-> "2"],
     [api_key |-> "k", api_secret |-> "s", symbol |-> "B", order_id |-> "2"],
     [api_key |-> "k", api_secret |-> Undefined, symbol |-> "B", order_id |-> "12"]}
AssetBodies == [api_key : {"k"}, api_secret : ApiSecrets, asset : {"USDT"}]
GetQueries == [symbol : {"B"}]

API_KEY == "envkey"
API_SECRET == "envsecret"

RetryCount == 3         \* generateProof: zkFetch(..., 3, 5000)
RetryDelayMs == 5000
RecvWindow == 60000

(***************************************************************************)
(* Cache store.  md5 stands for a hash that is injective on its input      *)
(* string, so the key is decided by the concatenation the code builds.     *)
(***************************************************************************)
md5(s) == "md5(" \o s \o ")"

generateCacheKey(apiKey, symbol, orderId) ==
    LET query == "" \o apiKey \o symbol \o orderId
    IN  md5(query) \o ".json"

\* JSON.stringify / JSON.parse of the two shapes the cache stores.
StringifyData(d) == <<"transformedProof", d.transformedProof, "proof", d.proof>>
\* Mutant of ParseData: the two members are read back under each other's name.
ParseDataSwapped(s) == [transformedProof |-> s[4], proof |-> s[2]]
ParseData(s) == [transformedProof |-> s[2], proof |-> s[4]]
JSONstringify(e) == <<"data", StringifyData(e.data), "cachedAt", e.cachedAt>>
JSONparse(s) == [data |-> ParseData(s[2]), cachedAt |-> s[4]]

existsSync(files, cacheFile) == cacheFile \in DOMAIN files

readCache(files, cacheFile) ==
    IF existsSync(files, cacheFile) THEN JSONparse(files[cacheFile]) ELSE Null

\* JSON.parse throws a SyntaxError on a text that ends before the object is
\* complete, and readCache lets it through.
JSONparseThrows(s) == Len(s) < 4
readCacheThrows(files, cacheFile) ==
    existsSync(files, cacheFile) /\ JSONparseThrows(files[cacheFile])

\* Mutants of writeCache: an entry that exists is kept (first writer wins);
\* writing an entry evicts every other one.
writeCacheKeepsFirst(files, cacheFile, data, t) ==
    [f \in DOMAIN files \cup {cacheFile} |->
        IF f \in DOMAIN files THEN files[f]
        ELSE JSONstringify([data |-> data, cachedAt |-> t])]

writeCacheEvicts(files, cacheFile, data, t) ==
    [f \in {cacheFile} |-> JSONstringify([data |-> data, cachedAt |-> t])]

\* fs.writeFileSync can throw: before it opens the file (EACCES), which leaves
\* the directory as it was, or after it has opened and truncated it (ENOSPC),
\* which leaves an empty file.
WriteErrors == {"EACCES", "ENOSPC"}
writeFileSyncFails(files, cacheFile, err) ==
    IF err = "ENOSPC"
    THEN [f \in DOMAIN files \cup {cacheFile} |-> IF f = cacheFile THEN <<>> ELSE files[f]]
    ELSE files

writeCache(files, cacheFile, data, t) ==
    [f \in DOMAIN files \cup {cacheFile} |->
        IF f = cacheFile THEN JSONstringify([data |-> data, cachedAt |-> t])
        ELSE files[f]]

(***************************************************************************)
(* Signer.  The HMAC is kept symbolic: the digest names the query string   *)
(* and the key it was computed from.  crypto.createHmac throws a TypeError *)
(* when the key is undefined.                                              *)
(***************************************************************************)
createSignatureThrows(secret) == secret = Undefined
createSignature(queryString, secret) ==
    [hmac |-> "sha256", msg |-> queryString, key |-> secret]

(***************************************************************************)
(* Requests.  A request record holds the handler's locals and what the     *)
(* handler has done so far: the zkFetch calls it made (with arguments),    *)
(* the number of verifySignedProof and transformForOnchain calls, the      *)
(* exchange requests it sent and the response it gave (status 0: none).    *)
(* For the properties, logAtRead records how many cache writes preceded    *)
(* the request's arrival (and so its cache read), and returned what each   *)
(* awaited external call of the request resolved with or threw.            *)
(***************************************************************************)
\* Date.now(): a logical clock, one tick per request received and per cache write.
now == Len(reqs) + Len(writeLog)

NewReq(route, body) ==
    [route |-> route, body |-> body, pc |-> "start",
     cacheKey |-> Undefined, hit |-> FALSE,
     servTime |-> now, zk |-> <<>>, verifyCalls |-> 0, transformCalls |-> 0,
     axios |-> <<>>, proof |-> None, result |-> None,
     status |-> 0, resBody |-> None,
     logAtRead |-> Len(writeLog), returned |-> <<>>]

\* res.status(s).json(v) / res.status(s).send(v) / res.render(view, v)
resJson(rec, s, v) == [rec EXCEPT !.status = s, !.resBody = [json |-> v], !.pc = "done"]
resSend(rec, s, v) == [rec EXCEPT !.status = s, !.resBody = [text |-> v], !.pc = "done"]
resRender(rec, view, v) ==
    [rec EXCEPT !.status = 200, !.resBody = [view |-> view, locals |-> v], !.pc = "done"]

\* reclaimClient.zkFetch(...args): args is the argument list of the call, in order
\* <<url, options>> or <<url, options, secretOptions, retries, retryInterval>>.
zkFetch(rec, args) == [rec EXCEPT !.zk = Append(@, args), !.pc = "zkFetch"]

\* axios.get(url, config)
axiosGet(rec, url, config, pc) ==
    [rec EXCEPT !.axios = Append(@, [url |-> url, config |-> config]), !.pc = pc]

\* What an awaited external call can do: resolve with a value or throw.
Resolve(v) == [ok |-> TRUE, val |-> v]
Throw(msg) == [ok |-> FALSE, err |-> msg]

Success(data) == [success |-> TRUE, data |-> data]
Failure(error) == [success |-> FALSE, error |-> error]

\* The proof the prover returns attests the URL it was asked to fetch, and
\* transformForOnchain re-encodes a proof.
proofOf(url) == [claim |-> url]
transformForOnchain(p) == [onchain |-> p]

(***************************************************************************)
(* generateProof (and the copy of its body inside the /debugproxy handler):*)
(* the call of zkFetch, and the continuations after each await.  A         *)
(* continuation ends either at the next await or with the function's       *)
(* return value in result (pc = "result").                                 *)
(***************************************************************************)
\* Mutant of generateProofCall: the retry arguments are left out.
generateProofCallNoRetry(rec, url, matches, apiKey) ==
    zkFetch(rec, <<url, [method |-> "GET"],
                   [headers |-> [XMBXAPIKEY |-> apiKey], responseMatches |-> matches]>>)

generateProofCall(rec, url, matches, apiKey) ==
    zkFetch(rec, <<url, [method |-> "GET"],
                   [headers |-> [XMBXAPIKEY |-> apiKey], responseMatches |-> matches],
                   RetryCount, RetryDelayMs>>)

return(rec, value) == [rec EXCEPT !.result = value, !.pc = "result"]

\* Mutant of catch: the error is not caught in generateProof and reaches the
\* handler's own catch, which answers 500.
catchRethrows(rec, out) == resSend(rec, 500, out.err)

catch(rec, out) == return(rec, Failure(out.err))

\* Mutant of afterZkFetch: a null proof is not detected.
afterZkFetchNoNullCheck(rec, out) ==
    IF ~out.ok THEN catch(rec, out)
    ELSE [rec EXCEPT !.proof = out.val, !.verifyCalls = @ + 1, !.pc = "verify"]

\* Mutant of afterZkFetch: a null proof makes the function call zkFetch again.
afterZkFetchCallsAgain(rec, out) ==
    IF ~out.ok THEN catch(rec, out)
    ELSE IF out.val = Null THEN zkFetch(rec, rec.zk[1])
    ELSE [rec EXCEPT !.proof = out.val, !.verifyCalls = @ + 1, !.pc = "verify"]

afterZkFetch(rec, out) ==
    IF ~out.ok THEN catch(rec, out)
    ELSE IF out.val = Null THEN return(rec, Failure("Failed to generate proof"))
    ELSE [rec EXCEPT !.proof = out.val, !.verifyCalls = @ + 1, !.pc = "verify"]

\* Mutants of afterVerify: the verdict is ignored; the two failure messages
\* are swapped.
afterVerifyAcceptsInvalid(rec, out) ==
    IF ~out.ok THEN catch(rec, out)
    ELSE [rec EXCEPT !.transformCalls = @ + 1, !.pc = "transform"]

afterVerifyWrongError(rec, out) ==
    IF ~out.ok THEN catch(rec, out)
    ELSE IF ~out.val THEN return(rec, Failure("Failed to generate proof"))
    ELSE [rec EXCEPT !.transformCalls = @ + 1, !.pc = "transform"]

afterVerify(rec, out) ==
    IF ~out.ok THEN catch(rec, out)
    ELSE IF ~out.val THEN return(rec, Failure("Proof is invalid"))
    ELSE [rec EXCEPT !.transformCalls = @ + 1, !.pc = "transform"]

afterTransform(rec, out) ==
    IF ~out.ok THEN catch(rec, out)
    ELSE return(rec, Success([transformedProof |-> out.val, proof |-> rec.proof]))

ZkFetchOutcomes(args) == {Resolve(proofOf(args[1])), Resolve(Null), Throw("zkFetch failed")}
VerifyOutcomes == {Resolve(b) : b \in BOOLEAN} \cup {Throw("verify failed")}
TransformOutcomes(p) == {Resolve(transformForOnchain(p)), Throw("transform failed")}

TimeOutcomes == {Resolve([serverTime |-> now + ServerSkew]), Throw("ECONNREFUSED")}
TradesOutcomes == {Resolve("trades"), Throw("ECONNREFUSED")}

serverTimeUrl == "https://fapi.binance.com/fapi/v1/time"

(***************************************************************************)
(* GET /                                                                   *)
(***************************************************************************)
getQueryString(timestamp, query) ==
    "timestamp=" \o ToString(timestamp) \o "&symbol=" \o query.symbol
        \o "&recvWindow=" \o ToString(RecvWindow)

getStart(rec) == axiosGet(rec, serverTimeUrl, None, "time")

\* Mutant of getAfterTime: a failed server-time fetch is swallowed and the local
\* clock is used instead, as the trade-proof handler does.
getAfterTimeFallsBack(rec, out) ==
    LET timestamp == IF out.ok THEN out.val.serverTime ELSE rec.servTime
        queryString == getQueryString(timestamp, rec.body)
        signature == createSignature(queryString, API_SECRET)
    IN  axiosGet([rec EXCEPT !.servTime = timestamp],
                 [base |-> "https://fapi.binance.com/fapi/v1/userTrades",
                  queryString |-> queryString, signature |-> signature],
                 [headers |-> [XMBXAPIKEY |-> API_KEY]], "userTrades")

getAfterTime(rec, out) ==
    IF ~out.ok THEN resJson(rec, 500, [error |-> out.err])
    ELSE LET timestamp == out.val.serverTime
             queryString == getQueryString(timestamp, rec.body)
             signature == createSignature(queryString, API_SECRET)
         IN  axiosGet([rec EXCEPT !.servTime = timestamp],
                      [base |-> "https://fapi.binance.com/fapi/v1/userTrades",
                       queryString |-> queryString, signature |-> signature],
                      [headers |-> [XMBXAPIKEY |-> API_KEY]], "userTrades")

getAfterTrades(rec, out) ==
    IF out.ok THEN resRender(rec, "trades", [trades |-> out.val])
    ELSE resJson(rec, 500, [error |-> out.err])

(***************************************************************************)
(* POST /generateUSDMTradeProof                                            *)
(***************************************************************************)
\* Mutant of tradeQueryString: recvWindow is put first.
tradeQueryStringReordered(timestamp, body) ==
    "recvWindow=" \o ToString(RecvWindow) \o "&timestamp=" \o ToString(timestamp)
        \o "&symbol=" \o body.symbol \o "&orderId=" \o body.order_id

tradeQueryString(timestamp, body) ==
    "timestamp=" \o ToString(timestamp) \o "&symbol=" \o body.symbol
        \o "&orderId=" \o body.order_id \o "&recvWindow=" \o ToString(RecvWindow)

tradeMatches == <<[type |-> "regex", value |-> "orderId"]>>

\* Mutant of tradeStart: the cache is not consulted.
tradeStartIgnoresCache(rec, files) ==
    axiosGet([rec EXCEPT !.cacheKey =
                 generateCacheKey(rec.body.api_key, rec.body.symbol, rec.body.order_id)],
             serverTimeUrl, None, "time")

\* readCache is called outside the handler's try: if it throws, the promise the
\* async handler returned is rejected (pc = "rejected").
tradeStart(rec, files) ==
    LET cacheKey == generateCacheKey(rec.body.api_key, rec.body.symbol, rec.body.order_id)
        c == readCache(files, cacheKey)
        r == [rec EXCEPT !.cacheKey = cacheKey]
    IN  IF readCacheThrows(files, cacheKey)
        THEN [r EXCEPT !.pc = "rejected",
                       !.returned = Append(@, [fn |-> "readCache", out |-> Throw("SyntaxError")])]
        ELSE IF c # Null THEN resJson([r EXCEPT !.hit = TRUE], 200, c.data)
        ELSE axiosGet(r, serverTimeUrl, None, "time")

\* Mutant of tradeAfterTime: a failed server-time fetch is answered 500, as GET /
\* does.
tradeAfterTimeFails(rec, out) ==
    IF ~out.ok THEN resSend(rec, 500, out.err)
    ELSE LET timestamp == out.val.serverTime
             queryString == tradeQueryString(timestamp, rec.body)
             r == [rec EXCEPT !.servTime = timestamp]
         IN  IF createSignatureThrows(rec.body.api_secret) THEN resSend(r, 500, "TypeError")
             ELSE generateProofCall(r,
                      [base |-> "https://fapi.binance.com/fapi/v1/userTrades",
                       queryString |-> queryString,
                       signature |-> createSignature(queryString, rec.body.api_secret)],
                      tradeMatches, rec.body.api_key)

tradeAfterTime(rec, out) ==
    LET timestamp == IF out.ok THEN out.val.serverTime ELSE rec.servTime
        queryString == tradeQueryString(timestamp, rec.body)
        r == [rec EXCEPT !.servTime = timestamp]
    IN  IF createSignatureThrows(rec.body.api_secret) THEN resSend(r, 500, "TypeError")
        ELSE generateProofCall(r,
                 [base |-> "https://fapi.binance.com/fapi/v1/userTrades",
                  queryString |-> queryString,
                  signature |-> createSignature(queryString, rec.body.api_secret)],
                 tradeMatches, rec.body.api_key)

\* The handler after `await generateProof(...)`: the response, and whether it caches.
tradeCaches(rec) == rec.result.success

tradeAfterResult(rec) ==
    IF ~rec.result.success THEN resSend(rec, 400, rec.result.error)
    ELSE resJson(rec, 200, rec.result.data)

\* Mutant of tradeCatch: an error thrown after generateProof succeeded is
\* ignored and the proof is returned.
tradeCatchAnswers200(rec, e) == resJson(rec, 200, rec.result.data)

\* The handler's catch.
tradeCatch(rec, e) == resSend(rec, 500, e)

(***************************************************************************)
(* POST /generateAssetProof                                                *)
(***************************************************************************)
assetQueryString(timestamp) == "timestamp=" \o ToString(timestamp)

assetMatches(body) == <<[type |-> "regex", value |-> "asset:" \o body.asset]>>

assetStart(rec) ==
    LET timestamp == rec.servTime
        queryString == assetQueryString(timestamp)
    IN  IF createSignatureThrows(rec.body.api_secret) THEN resSend(rec, 500, "TypeError")
        ELSE generateProofCall(rec,
                 [base |-> "https://api.binance.com/api/v3/account",
                  queryString |-> queryString,
                  signature |-> createSignature(queryString, rec.body.api_secret)],
                 assetMatches(rec.body), rec.body.api_key)

assetAfterResult(rec) ==
    IF ~rec.result.success THEN resSend(rec, 400, rec.result.error)
    ELSE resJson(rec, 200, rec.result.data)

(***************************************************************************)
(* POST /debugproxy.  The handler returns the result object to Express,    *)
(* which ignores a handler's return value: no method of res is called.     *)
(***************************************************************************)
debugStart(rec) ==
    zkFetch(rec, <<[base |-> "https://browserleaks.com/ip"], [method |-> "GET"]>>)

debugAfterResult(rec) == [rec EXCEPT !.pc = "done"]

(***************************************************************************)
(* The state machine.                                                      *)
(***************************************************************************)
Init ==
    /\ cache = [f \in {} |-> <<>>]
    /\ reqs = <<>>
    /\ writeLog = <<>>

Arrive(rec) ==
    /\ reqs' = Append(reqs, rec)
    /\ UNCHANGED <<cache, writeLog>>

Step(i, rec) ==
    /\ reqs' = [reqs EXCEPT ![i] = rec]
    /\ UNCHANGED <<cache, writeLog>>

\* The handler's code after `await generateProof(...)` (for /debugproxy: the
\* inlined copy's return).
handlerAfterResult(rec) ==
    CASE rec.route = "trade" -> tradeAfterResult(rec)
      [] rec.route = "asset" -> assetAfterResult(rec)
      [] OTHER -> debugAfterResult(rec)

\* Mutant of handlerCaches: the asset-proof handler stores its result as well.
handlerCachesAssetToo(rec) == rec.route \in {"trade", "asset"} /\ rec.result.success

\* Whether the handler calls writeCache after generateProof: only the trade-proof
\* handler has the call.
handlerCaches(rec) == rec.route = "trade" /\ tradeCaches(rec)

\* The call fn of request i returns `out`, and `after` is the request after the
\* continuation that receives it.  If that continuation ended generateProof, the
\* handler goes on to its response and, for a trade proof, to the cache write.
Return(i, fn, out, after) ==
    LET r == [after EXCEPT !.returned = Append(@, [fn |-> fn, out |-> out])]
        resumed == r.pc = "result"
    IN  /\ reqs' = [reqs EXCEPT ![i] = IF resumed THEN handlerAfterResult(r) ELSE r]
        /\ IF resumed /\ handlerCaches(r)
           THEN /\ cache' = writeCache(cache, r.cacheKey, r.result.data, now)
                /\ writeLog' = Append(writeLog,
                                      [key |-> r.cacheKey, data |-> r.result.data, req |-> i])
           ELSE UNCHANGED <<cache, writeLog>>

At(i, route, pc) == reqs[i].route = route /\ reqs[i].pc = pc

GetRequest ==
    /\ Len(reqs) < MaxReq
    /\ \E q \in GetQueries : Arrive(getStart(NewReq("GET /", q)))

GetTimeReturns(i) ==
    /\ At(i, "GET /", "time")
    /\ \E out \in TimeOutcomes : Return(i, "time", out, getAfterTime(reqs[i], out))

GetTradesReturns(i) ==
    /\ At(i, "GET /", "userTrades")
    /\ \E out \in TradesOutcomes : Return(i, "userTrades", out, getAfterTrades(reqs[i], out))

TradeRequest ==
    /\ Len(reqs) < MaxReq
    /\ \E b \in TradeBodies : Arrive(tradeStart(NewReq("trade", b), cache))

TradeTimeReturns(i) ==
    /\ At(i, "trade", "time")
    /\ \E out \in TimeOutcomes : Return(i, "time", out, tradeAfterTime(reqs[i], out))

AssetRequest ==
    /\ Len(reqs) < MaxReq
    /\ \E b \in AssetBodies : Arrive(assetStart(NewReq("asset", b)))

DebugRequest ==
    /\ Len(reqs) < MaxReq
    /\ Arrive(debugStart(NewReq("debugproxy", None)))

ZkFetchReturns(i) ==
    /\ reqs[i].pc = "zkFetch"
    /\ \E out \in ZkFetchOutcomes(reqs[i].zk[Len(reqs[i].zk)]) :
            Return(i, "zkFetch", out, afterZkFetch(reqs[i], out))

VerifyReturns(i) ==
    /\ reqs[i].pc = "verify"
    /\ \E out \in VerifyOutcomes :
            Return(i, "verifySignedProof", out, afterVerify(reqs[i], out))

TransformReturns(i) ==
    /\ reqs[i].pc = "transform"
    /\ \E out \in TransformOutcomes(reqs[i].proof) :
            Return(i, "transformForOnchain", out, afterTransform(reqs[i], out))

(***************************************************************************)
(* The same machine on a disk that can fail.  writeFileSync can throw,     *)
(* which the trade-proof handler's catch answers, and can leave an empty   *)
(* file behind, on which a later readCache throws.  That exception is      *)
(* outside every try: the handler's promise is rejected and nothing in the *)
(* program handles it.  What follows depends on the versions installed:    *)
(* Express 4 ignores the promise, so the rejection is unhandled and either *)
(* only warns (Node before 15: the request is never answered) or ends the  *)
(* process (Node 15 and later); Express 5 passes it to its default error   *)
(* handler, which answers 500.                                             *)
(***************************************************************************)
Alive == \A i \in 1..Len(reqs) : reqs[i].pc # "exit"

RejectionOutcomes == {"warn", "exit", "errorHandler"}

afterRejection(rec, outcome) ==
    CASE outcome = "warn" -> [rec EXCEPT !.pc = "done"]
      [] outcome = "exit" -> [rec EXCEPT !.pc = "exit"]
      [] OTHER -> resSend(rec, 500, "SyntaxError")

UnhandledRejection(i) ==
    /\ reqs[i].pc = "rejected"
    /\ \E outcome \in RejectionOutcomes : Step(i, afterRejection(reqs[i], outcome))

\* transformForOnchain returns and, if the handler goes on to writeCache,
\* writeFileSync throws.
TransformReturnsWriteFails(i) ==
    /\ reqs[i].pc = "transform"
    /\ \E out \in TransformOutcomes(reqs[i].proof) : \E err \in WriteErrors :
          LET after == afterTransform(reqs[i], out)
              r == [after EXCEPT !.returned =
                        @ \o <<[fn |-> "transformForOnchain", out |-> out],
                               [fn |-> "writeCache", out |-> Throw(err)]>>]
          IN  /\ r.pc = "result" /\ handlerCaches(r)
              /\ reqs' = [reqs EXCEPT ![i] = tradeCatch(r, err)]
              /\ cache' = writeFileSyncFails(cache, r.cacheKey, err)
              /\ UNCHANGED writeLog

NextDisk ==
    \/ Alive /\ GetRequest
    \/ Alive /\ TradeRequest
    \/ Alive /\ AssetRequest
    \/ Alive /\ DebugRequest
    \/ \E i \in 1..Len(reqs) : Alive /\ GetTimeReturns(i)
    \/ \E i \in 1..Len(reqs) : Alive /\ GetTradesReturns(i)
    \/ \E i \in 1..Len(reqs) : Alive /\ TradeTimeReturns(i)
    \/ \E i \in 1..Len(reqs) : Alive /\ ZkFetchReturns(i)
    \/ \E i \in 1..Len(reqs) : Alive /\ VerifyReturns(i)
    \/ \E i \in 1..Len(reqs) : Alive /\ TransformReturns(i)
    \/ \E i \in 1..Len(reqs) : Alive /\ TransformReturnsWriteFails(i)
    \/ \E i \in 1..Len(reqs) : Alive /\ UnhandledRejection(i)

SpecDisk == Init /\ [][NextDisk]_vars

Next ==
    \/ GetRequest
    \/ TradeRequest
    \/ AssetRequest
    \/ DebugRequest
    \/ \E i \in 1..Len(reqs) : GetTimeReturns(i)
    \/ \E i \in 1..Len(reqs) : GetTradesReturns(i)
    \/ \E i \in 1..Len(reqs) : TradeTimeReturns(i)
    \/ \E i \in 1..Len(reqs) : ZkFetchReturns(i)
    \/ \E i \in 1..Len(reqs) : VerifyReturns(i)
    \/ \E i \in 1..Len(reqs) : TransformReturns(i)

Spec == Init /\ [][Next]_vars

(***************************************************************************)
(* Vocabulary of the properties.                                           *)
(***************************************************************************)
Reqs == 1..Len(reqs)
OfRoute(routes) == {i \in Reqs : reqs[i].route \in routes}
Trade == OfRoute({"trade"})
ProofEndpoints == OfRoute({"trade", "asset"})

triple(rec) == <<rec.body.api_key, rec.body.symbol, rec.body.order_id>>

\* The call fn of the request returned `out` / threw.
Returned(rec, fn, out) ==
    \E k \in 1..Len(rec.returned) : rec.returned[k].fn = fn /\ rec.returned[k].out = out
Threw(rec, fn) ==
    \E k \in 1..Len(rec.returned) : rec.returned[k].fn = fn /\ ~rec.returned[k].out.ok
ThrownBy(rec, fn) ==
    rec.returned[CHOOSE k \in 1..Len(rec.returned) : rec.returned[k].fn = fn].out.err

\* The prover's call counter.
RECURSIVE ZkCalls(_)
ZkCalls(q) == IF q = <<>> THEN 0 ELSE Len(Head(q).zk) + ZkCalls(Tail(q))

\* The cache writes for `key` among the first n, and the data of the last one.
WritesTo(key, n) == {w \in 1..n : writeLog[w].key = key}
LastWritten(key, n) ==
    LET ws == WritesTo(key, n)
    IN  writeLog[CHOOSE w \in ws : \A v \in ws : v <= w].data

Wrote(i) == \E w \in 1..Len(writeLog) : writeLog[w].req = i

\* Request i is answered (or its handler ends) in this step.
Completes(i) == reqs'[i].pc = "done" /\ (i > Len(reqs) \/ reqs[i].pc # "done")
\* Request j arrives in this step.
Arrives(j) == j = Len(reqs') /\ Len(reqs') = Len(reqs) + 1

(***************************************************************************)
(* C1.  Idempotence of POST /generateUSDMTradeProof: when a trade-proof    *)
(* request arrives after a request with the same (api_key, symbol,         *)
(* order_id) was answered 200 on a cache miss, it is answered at once with *)
(* 200 and the data held by the cache (the data last written under its     *)
(* key), it calls zkFetch neither then nor later, and the prover's call    *)
(* counter does not change in that step.                                   *)
(***************************************************************************)
C1_Step ==
    \A j \in 1..Len(reqs') :
        (/\ Arrives(j)
         /\ reqs'[j].route = "trade"
         /\ \E i \in Trade : /\ reqs[i].status = 200
                             /\ ~reqs[i].hit
                             /\ triple(reqs[i]) = triple(reqs'[j]))
        => /\ reqs'[j].pc = "done"
           /\ reqs'[j].status = 200
           /\ reqs'[j].resBody = [json |-> LastWritten(reqs'[j].cacheKey, Len(writeLog))]
           /\ reqs'[j].zk = <<>>
           /\ ZkCalls(reqs') = ZkCalls(reqs)

DoneStays == \A i \in Reqs : reqs[i].pc = "done" => reqs'[i] = reqs[i]

C1_Idempotent == [][C1_Step /\ DoneStays]_vars

\* A request answered 200 on a miss, and a later one for the same triple answered
\* from the cache with the same data.
C1_Witness ==
    \E i, j \in Trade :
        /\ i < j
        /\ reqs[i].status = 200 /\ ~reqs[i].hit /\ Wrote(i)
        /\ triple(reqs[i]) = triple(reqs[j])
        /\ reqs[j].hit /\ reqs[j].status = 200 /\ reqs[j].zk = <<>>
        /\ reqs[j].resBody = reqs[i].resBody

(***************************************************************************)
(* C2.  Only successful proof results are cached: every cache entry holds  *)
(* the Success data of a trade-proof request that was answered 200 on a    *)
(* miss, whose proof was non-null, was found valid and was transformed; a  *)
(* trade-proof request answered 400 or 500 leaves the cache as it was; and *)
(* a trade-proof request that finds no entry under its key is not served   *)
(* from the cache but goes on to call the prover.                          *)
(***************************************************************************)
C2_Entries ==
    \A f \in DOMAIN cache :
        \E i \in Trade :
            LET rec == reqs[i]
                data == readCache(cache, f).data
            IN  /\ rec.cacheKey = f
                /\ rec.status = 200 /\ ~rec.hit
                /\ rec.result = Success(data)
                /\ rec.resBody = [json |-> data]
                /\ data.proof # Null
                /\ Returned(rec, "zkFetch", Resolve(data.proof))
                /\ Returned(rec, "verifySignedProof", Resolve(TRUE))
                /\ Returned(rec, "transformForOnchain", Resolve(data.transformedProof))

C2_MissCallsProver ==
    \A i \in Trade :
        (~reqs[i].hit /\ reqs[i].pc # "time" /\ ~createSignatureThrows(reqs[i].body.api_secret))
        => Len(reqs[i].zk) = 1

C2_Step ==
    \A i \in 1..Len(reqs') :
        /\ (reqs'[i].route = "trade" /\ Completes(i) /\ reqs'[i].status \in {400, 500})
           => cache' = cache
        /\ (reqs'[i].route = "trade" /\ Arrives(i) /\ reqs'[i].cacheKey \notin DOMAIN cache)
           => ~reqs'[i].hit /\ reqs'[i].pc = "time"

C3_InvalidProof ==
    \A i \in ProofEndpoints :
        Returned(reqs[i], "verifySignedProof", Resolve(FALSE))
        => /\ reqs[i].proof # Null /\ reqs[i].proof # None
           /\ reqs[i].pc = "done"
           /\ reqs[i].status = 400
           /\ reqs[i].resBody = [text |-> "Proof is invalid"]
           /\ reqs[i].transformCalls = 0
           /\ ~Wrote(i)

C3_Witness ==
    \E i \in Trade :
        /\ Returned(reqs[i], "verifySignedProof", Resolve(FALSE))
        /\ reqs[i].status = 400
        /\ reqs[i].cacheKey \notin DOMAIN cache

(***************************************************************************)
(* C4.  On the trade-proof and asset-proof endpoints, when zkFetch returns *)
(* null the request is answered 400 "Failed to generate proof" and neither *)
(* verifySignedProof nor transformForOnchain is called for it.             *)
(***************************************************************************)
C4_NullProof ==
    \A i \in ProofEndpoints :
        Returned(reqs[i], "zkFetch", Resolve(Null))
        => /\ reqs[i].pc = "done"
           /\ reqs[i].status = 400
           /\ reqs[i].resBody = [text |-> "Failed to generate proof"]
           /\ reqs[i].verifyCalls = 0
           /\ reqs[i].transformCalls = 0

C4_Witness ==
    \E i \in OfRoute({"asset"}) :
        /\ Returned(reqs[i], "zkFetch", Resolve(Null))
        /\ reqs[i].status = 400

(***************************************************************************)
(* C5 as stated: on the trade-proof and asset-proof endpoints, a request   *)
(* whose transformForOnchain call threw is answered 500.                   *)
(***************************************************************************)
C5_TransformThrow500 ==
    \A i \in ProofEndpoints :
        (reqs[i].pc = "done" /\ Threw(reqs[i], "transformForOnchain"))
        => reqs[i].status = 500

(***************************************************************************)
(* C5 amended.  On the trade-proof and asset-proof endpoints, an error     *)
(* thrown by zkFetch, verifySignedProof or transformForOnchain is caught   *)
(* in generateProof and the request is answered 400 with the error's       *)
(* message; a request whose api_secret is missing, so that createSignature *)
(* throws in the handler, is answered 500 without any call of the prover   *)
(* (for a trade proof: unless it was served from the cache).               *)
(***************************************************************************)
C5_ThrowsAnswered ==
    \A i \in ProofEndpoints :
        reqs[i].pc = "done"
        => /\ \A fn \in {"zkFetch", "verifySignedProof", "transformForOnchain"} :
                Threw(reqs[i], fn)
                => /\ reqs[i].status = 400
                   /\ reqs[i].resBody = [text |-> ThrownBy(reqs[i], fn)]
           /\ (createSignatureThrows(reqs[i].body.api_secret) /\ ~reqs[i].hit)
                => /\ reqs[i].status = 500
                   /\ reqs[i].resBody = [text |-> "TypeError"]
                   /\ reqs[i].zk = <<>>

\* A trade proof answered 400 after the transform threw on a verified proof, and
\* an asset proof answered 500 for a missing api_secret.
C5_Witness ==
    /\ \E i \in Trade :
        /\ Returned(reqs[i], "verifySignedProof", Resolve(TRUE))
        /\ Threw(reqs[i], "transformForOnchain")
        /\ reqs[i].status = 400
        /\ reqs[i].resBody = [text |-> "transform failed"]
    /\ \E i \in OfRoute({"asset"}) : reqs[i].status = 500

(***************************************************************************)
(* C6 as stated: a /debugproxy request whose handler has finished (its     *)
(* external calls have returned or thrown) has been sent a response.       *)
(***************************************************************************)
C6_DebugProxyResponds ==
    \A i \in OfRoute({"debugproxy"}) :
        reqs[i].pc = "done" => reqs[i].status # 0 /\ reqs[i].resBody # None

(***************************************************************************)
(* C7 as stated: retry count and retry delay are passed to zkFetch only    *)
(* for the trade-proof endpoint: every zkFetch call of an asset-proof or   *)
(* /debugproxy request is made without them, and no request makes more     *)
(* than one zkFetch call.                                                  *)
(***************************************************************************)
NoRetryArgs(args) == Len(args) < 4
RetryArgs(args) == Len(args) = 5 /\ args[4] = RetryCount /\ args[5] = RetryDelayMs

C7_RetryOnlyForTrade ==
    \A i \in Reqs :
        /\ Len(reqs[i].zk) <= 1
        /\ \A k \in 1..Len(reqs[i].zk) :
            /\ reqs[i].route = "trade" => RetryArgs(reqs[i].zk[k])
            /\ reqs[i].route \in {"asset", "debugproxy"} => NoRetryArgs(reqs[i].zk[k])

(***************************************************************************)
(* C7 amended.  Retry count 3 and retry delay 5000 are passed to zkFetch   *)
(* for the trade-proof and the asset-proof endpoints alike (both call      *)
(* generateProof); a zkFetch call of a /debugproxy request is made without *)
(* them; GET / never calls zkFetch; and no request makes more than one     *)
(* zkFetch call.                                                           *)
(***************************************************************************)
C7_RetryForProofEndpoints ==
    \A i \in Reqs :
        /\ Len(reqs[i].zk) <= 1
        /\ reqs[i].route = "GET /" => reqs[i].zk = <<>>
        /\ \A k \in 1..Len(reqs[i].zk) :
            /\ reqs[i].route \in {"trade", "asset"} => RetryArgs(reqs[i].zk[k])
            /\ reqs[i].route = "debugproxy" => NoRetryArgs(reqs[i].zk[k])

C7_Witness ==
    /\ \E i \in OfRoute({"asset"}) : Len(reqs[i].zk) = 1 /\ RetryArgs(reqs[i].zk[1])
    /\ \E i \in OfRoute({"debugproxy"}) : Len(reqs[i].zk) = 1 /\ NoRetryArgs(reqs[i].zk[1])

(***************************************************************************)
(* C8 as stated: with an injective hash, two trade-proof requests with     *)
(* different (api_key, symbol, order_id) have different cache keys (and    *)
(* equal triples have equal keys).                                         *)
(***************************************************************************)
C8_KeyInjective ==
    \A i, j \in Trade :
        (reqs[i].cacheKey = reqs[j].cacheKey) <=> (triple(reqs[i]) = triple(reqs[j]))

(***************************************************************************)
(* C9.  Last writer wins: each cache entry holds the data of the last      *)
(* writeCache for its key, in particular once every request has been       *)
(* answered; and a trade-proof request answered 200 returned its own proof *)
(* result (on a miss) or the data that had last been written under its key *)
(* before its cache read (on a hit).                                       *)
(***************************************************************************)
C9_LastWriterWins ==
    /\ \A f \in DOMAIN cache :
        /\ WritesTo(f, Len(writeLog)) # {}
        /\ readCache(cache, f).data = LastWritten(f, Len(writeLog))
    /\ \A w \in 1..Len(writeLog) : writeLog[w].key \in DOMAIN cache
    /\ \A i \in Trade :
        reqs[i].status = 200
        => IF reqs[i].hit
           THEN /\ WritesTo(reqs[i].cacheKey, reqs[i].logAtRead) # {}
                /\ reqs[i].resBody =
                      [json |-> LastWritten(reqs[i].cacheKey, reqs[i].logAtRead)]
           ELSE /\ reqs[i].result.success
                /\ reqs[i].resBody = [json |-> reqs[i].result.data]
                /\ Wrote(i)

\* Two requests for one fingerprint both missed, both computed a proof and both
\* wrote; all requests are answered and the entry is the second writer's.
C9_Witness ==
    /\ \A i \in Reqs : reqs[i].pc = "done"
    /\ Len(writeLog) = 2
    /\ writeLog[1].key = writeLog[2].key
    /\ writeLog[1].data # writeLog[2].data
    /\ writeLog[1].req # writeLog[2].req
    /\ readCache(cache, writeLog[2].key).data = writeLog[2].data
    /\ reqs[writeLog[1].req].resBody = [json |-> writeLog[1].data]

(***************************************************************************)
(* C10.  No invalidation, no eviction: in every step, a key that is in the *)
(* cache stays in it, and its entry changes only by the writeCache of a    *)
(* trade-proof request with that key, to that request's Success data.      *)
(***************************************************************************)
C10_Step ==
    \A f \in DOMAIN cache :
        /\ f \in DOMAIN cache'
        /\ cache'[f] # cache[f]
           => \E i \in Trade :
                /\ Completes(i)
                /\ reqs'[i].cacheKey = f
                /\ reqs'[i].status = 200 /\ ~reqs'[i].hit
                /\ JSONparse(cache'[f]).data = reqs'[i].result.data

C10_NeverEvicted == [][C10_Step]_vars

\* A second key was written and the entry written first is still there, as written.
C10_Witness ==
    /\ Len(writeLog) = 2
    /\ writeLog[1].key # writeLog[2].key
    /\ DOMAIN cache = {writeLog[1].key, writeLog[2].key}
    /\ readCache(cache, writeLog[1].key).data = writeLog[1].data

(***************************************************************************)
(* C11.  Cache round trip: in the step in which writeCache(k, d) is        *)
(* called, readCache(k) of the new cache is {data: d, cachedAt: Date.now()}*)
(* ; a step without a writeCache leaves readCache of every key as it was   *)
(* (so the entry read back is the one written until the next write to k);  *)
(* and readCache of a key that was never written is null.                  *)
(***************************************************************************)
CacheKeys == {generateCacheKey(b.api_key, b.symbol, b.order_id) : b \in TradeBodies}

C11_Step ==
    IF Len(writeLog') = Len(writeLog) + 1
    THEN LET w == writeLog'[Len(writeLog')]
         IN  /\ readCache(cache', w.key) = [data |-> w.data, cachedAt |-> now]
             /\ \A k \in CacheKeys \ {w.key} : readCache(cache', k) = readCache(cache, k)
    ELSE /\ writeLog' = writeLog
         /\ \A k \in CacheKeys : readCache(cache', k) = readCache(cache, k)

C11_NeverWritten ==
    \A k \in CacheKeys : WritesTo(k, Len(writeLog)) = {} => readCache(cache, k) = Null

C12_GetUpstreamFailure ==
    \A i \in OfRoute({"GET /"}) :
        /\ Threw(reqs[i], "time")
           => /\ reqs[i].pc = "done"
              /\ reqs[i].status = 500
              /\ Len(reqs[i].axios) = 1
              /\ reqs[i].axios[1].url = serverTimeUrl
        /\ Threw(reqs[i], "userTrades")
           => /\ ~Threw(reqs[i], "time")
              /\ reqs[i].pc = "done"
              /\ reqs[i].status = 500
              /\ Len(reqs[i].axios) = 2

C12_Witness ==
    /\ \E i \in OfRoute({"GET /"}) : Threw(reqs[i], "time") /\ reqs[i].status = 500
    /\ \E i \in OfRoute({"GET /"}) : Threw(reqs[i], "userTrades") /\ reqs[i].status = 500

(***************************************************************************)
(* C14 as stated: a trade-proof request whose server-time fetch failed is  *)
(* answered 500 and makes no zkFetch call.                                 *)
(***************************************************************************)
C14_TimeFailure500 ==
    \A i \in Trade :
        Threw(reqs[i], "time")
        => reqs[i].pc = "done" /\ reqs[i].status = 500 /\ reqs[i].zk = <<>>

(***************************************************************************)
(* C14 amended.  On the trade-proof endpoint a failed server-time fetch is *)
(* swallowed: the handler takes the value Date.now() had when the request  *)
(* arrived as the timestamp, signs the query string built with it and      *)
(* calls the prover with that URL (unless api_secret is missing, which is  *)
(* answered 500 without a prover call); when the fetch succeeds the        *)
(* timestamp is the exchange's serverTime.                                 *)
(***************************************************************************)
\* Date.now() when request i arrived.
ArrivalTime(i) == (i - 1) + reqs[i].logAtRead

SignedTradeUrl(timestamp, body) ==
    LET queryString == tradeQueryString(timestamp, body)
    IN  [base |-> "https://fapi.binance.com/fapi/v1/userTrades",
         queryString |-> queryString,
         signature |-> createSignature(queryString, body.api_secret)]

C14_TimeFailureFallsBack ==
    \A i \in Trade :
        LET rec == reqs[i]
            timed == \E k \in 1..Len(rec.returned) : rec.returned[k].fn = "time"
        IN  /\ timed /\ createSignatureThrows(rec.body.api_secret)
               => rec.pc = "done" /\ rec.status = 500 /\ rec.zk = <<>>
            /\ timed /\ ~createSignatureThrows(rec.body.api_secret)
               => /\ Len(rec.zk) = 1
                  /\ rec.zk[1][1] =
                        SignedTradeUrl(IF Threw(rec, "time") THEN ArrivalTime(i)
                                       ELSE rec.returned[1].out.val.serverTime,
                                       rec.body)

\* The fetch failed, the prover was called with the local timestamp, and the
\* request was answered 200.
C14_Witness ==
    \E i \in Trade :
        /\ Threw(reqs[i], "time")
        /\ Len(reqs[i].zk) = 1
        /\ reqs[i].zk[1][1].queryString = tradeQueryString(ArrivalTime(i), reqs[i].body)
        /\ reqs[i].status = 200
        /\ i = 2

(***************************************************************************)
(* C16.  Per request the prover is called at most once and the external    *)
(* calls are awaited one after the other in a fixed order: for a           *)
(* trade-proof request the cache read (on arrival), the server-time fetch, *)
(* zkFetch, verifySignedProof, transformForOnchain, then the cache write   *)
(* together with the response; the other proof routes the same without     *)
(* the cache and the time fetch.  No call is issued while another call of  *)
(* the same request is pending, and a request served from the cache makes  *)
(* no external call at all.                                                *)
(***************************************************************************)
CallOrder(route) ==
    CASE route = "GET /" -> <<"time", "userTrades">>
      [] route = "trade" -> <<"time", "zkFetch", "verifySignedProof", "transformForOnchain">>
      [] OTHER -> <<"zkFetch", "verifySignedProof", "transformForOnchain">>

Awaiting == {"time", "userTrades", "zkFetch", "verify", "transform"}

CallsIssued(rec) == Len(rec.axios) + Len(rec.zk) + rec.verifyCalls + rec.transformCalls

C16_Sequential ==
    \A i \in Reqs :
        LET rec == reqs[i]
            order == CallOrder(rec.route)
            n == Len(rec.returned)
        IN  /\ Len(rec.zk) <= 1 /\ rec.verifyCalls <= 1 /\ rec.transformCalls <= 1
            /\ n <= Len(order)
            /\ \A k \in 1..n : rec.returned[k].fn = order[k]
            /\ CallsIssued(rec) = n + (IF rec.pc \in Awaiting THEN 1 ELSE 0)
            /\ rec.pc \in Awaiting
               => order[n + 1] = (CASE rec.pc = "verify" -> "verifySignedProof"
                                    [] rec.pc = "transform" -> "transformForOnchain"
                                    [] OTHER -> rec.pc)
            /\ rec.route = "trade" /\ Len(rec.axios) > 0 => rec.cacheKey # Undefined /\ ~rec.hit
            /\ Wrote(i) => /\ rec.route = "trade"
                           /\ Returned(rec, "transformForOnchain",
                                       Resolve(rec.result.data.transformedProof))
                           /\ rec.pc = "done"
            /\ rec.hit => /\ rec.returned = <<>> /\ CallsIssued(rec) = 0
                          /\ rec.pc = "done" /\ rec.status = 200

\* A trade-proof request that went through every step and wrote the cache, and a
\* later one answered from the cache with no call.
C16_Witness ==
    \E i, j \in Trade :
        /\ Len(reqs[i].returned) = 4 /\ Wrote(i) /\ reqs[i].status = 200
        /\ Len(reqs[i].zk) = 1 /\ CallsIssued(reqs[i]) = 4
        /\ reqs[j].hit /\ CallsIssued(reqs[j]) = 0

(***************************************************************************)
(* C17 as stated: every signed request (GET / userTrades, trade proof,     *)
(* asset proof) has a query string made of timestamp, then the endpoint's  *)
(* own fields, then recvWindow, and its signature is createSignature of    *)
(* that query string and the request's secret.                             *)
(***************************************************************************)
\* name=value pairs joined by "&".
RECURSIVE Serialize(_)
Serialize(fields) ==
    IF fields = <<>> THEN ""
    ELSE Head(fields)[1] \o "=" \o Head(fields)[2]
         \o (IF Tail(fields) = <<>> THEN "" ELSE "&" \o Serialize(Tail(fields)))

\* The signed URLs request i has built, the timestamp it had to use, its secret,
\* and the orders its endpoint-specific fields can take.
SignedUrls(i) ==
    IF reqs[i].route = "GET /" THEN {reqs[i].axios[k].url : k \in 2..Len(reqs[i].axios)}
    ELSE IF reqs[i].route \in {"trade", "asset"} THEN {reqs[i].zk[k][1] : k \in 1..Len(reqs[i].zk)}
    ELSE {}

TimestampOf(i) ==
    IF reqs[i].route = "asset" \/ Threw(reqs[i], "time") THEN ArrivalTime(i)
    ELSE reqs[i].returned[1].out.val.serverTime

SecretOf(i) == IF reqs[i].route = "GET /" THEN API_SECRET ELSE reqs[i].body.api_secret

EndpointFields(i) ==
    CASE reqs[i].route = "GET /" -> {<< <<"symbol", reqs[i].body.symbol>> >>}
      [] reqs[i].route = "trade" ->
            {<< <<"symbol", reqs[i].body.symbol>>, <<"orderId", reqs[i].body.order_id>> >>,
             << <<"orderId", reqs[i].body.order_id>>, <<"symbol", reqs[i].body.symbol>> >>}
      [] OTHER -> {<<>>}

TimestampField(i) == << <<"timestamp", ToString(TimestampOf(i))>> >>
RecvWindowField == << <<"recvWindow", ToString(RecvWindow)>> >>

C17_FieldOrder ==
    \A i \in Reqs : \A u \in SignedUrls(i) :
        /\ \E fs \in EndpointFields(i) :
              u.queryString = Serialize(TimestampField(i) \o fs \o RecvWindowField)
        /\ u.signature = createSignature(u.queryString, SecretOf(i))

(***************************************************************************)
(* C17 amended.  The two userTrades requests (GET / and trade proof) carry *)
(* timestamp, symbol, (trade proof: orderId,) recvWindow=60000 in that     *)
(* order; the asset-proof request's query string is the timestamp field    *)
(* alone, without recvWindow.  In all three the signature is               *)
(* createSignature of exactly that query string and the request's secret   *)
(* (BINANCE_API_SECRET for GET /, the body's api_secret otherwise).        *)
(***************************************************************************)
ExpectedFields(i) ==
    CASE reqs[i].route = "GET /" ->
            TimestampField(i) \o << <<"symbol", reqs[i].body.symbol>> >> \o RecvWindowField
      [] reqs[i].route = "trade" ->
            TimestampField(i) \o << <<"symbol", reqs[i].body.symbol>>,
                                    <<"orderId", reqs[i].body.order_id>> >> \o RecvWindowField
      [] OTHER -> TimestampField(i)

C17_SignedQueryString ==
    \A i \in Reqs : \A u \in SignedUrls(i) :
        /\ u.queryString = Serialize(ExpectedFields(i))
        /\ u.signature = createSignature(u.queryString, SecretOf(i))
        /\ u.signature.key # Undefined

\* A trade-proof request signed with the exchange's time and an asset-proof
\* request whose query string is the timestamp alone.
C17_Witness ==
    \E i \in Trade : \E j \in OfRoute({"asset"}) :
        /\ SignedUrls(i) # {} /\ ~Threw(reqs[i], "time")
        /\ SignedUrls(j) # {}
        /\ \A u \in SignedUrls(j) : u.queryString = "timestamp=" \o ToString(ArrivalTime(j))

(***************************************************************************)
(* C18.  A trade-proof request is answered 200 only if its api_secret      *)
(* signed an exchange request that the prover attested: the proof in its   *)
(* 200 response attests a URL whose signature was made with the api_secret *)
(* of that request's body.                                                 *)
(***************************************************************************)
C18_SecretRequired ==
    \A i \in Trade :
        reqs[i].status = 200
        => \E j \in Trade :
              /\ Len(reqs[j].zk) = 1
              /\ reqs[j].zk[1][1].signature.key = reqs[i].body.api_secret
              /\ reqs[i].resBody.json.proof = proofOf(reqs[j].zk[1][1])

(***************************************************************************)
(* C19.  Only POST /generateUSDMTradeProof touches the cache.  A step of a *)
(* GET /, asset-proof or debugproxy request leaves every cache file as it  *)
(* is; such a request is never served from the cache: its 200 response is  *)
(* made of what its own external calls returned.  A step of a trade-proof  *)
(* request with fingerprint k leaves every file other than k as it is, and *)
(* whether it is a hit, and the body of the hit, depend on file k alone.   *)
(***************************************************************************)
\* The request that arrives or moves in this step.
ActsIn(i) == i \in 1..Len(reqs') /\ (Arrives(i) \/ (i <= Len(reqs) /\ reqs'[i] # reqs[i]))

SameFile(f) ==
    /\ existsSync(cache', f) = existsSync(cache, f)
    /\ existsSync(cache, f) => cache'[f] = cache[f]

C19_Step ==
    \A i \in 1..Len(reqs') :
        ActsIn(i)
        => IF reqs'[i].route # "trade"
           THEN cache' = cache /\ writeLog' = writeLog
           ELSE LET k == reqs'[i].cacheKey
                IN  /\ \A f \in (DOMAIN cache \cup DOMAIN cache') \ {k} : SameFile(f)
                    /\ \A w \in Len(writeLog) + 1..Len(writeLog') : writeLog'[w].key = k
                    /\ Arrives(i)
                       => /\ k = generateCacheKey(reqs'[i].body.api_key, reqs'[i].body.symbol,
                                                  reqs'[i].body.order_id)
                          /\ reqs'[i].hit = existsSync(cache, k)
                          /\ reqs'[i].hit => reqs'[i].resBody = [json |-> readCache(cache, k).data]

C19_OwnAnswer ==
    \A i \in Reqs \ Trade :
        LET rec == reqs[i]
        IN  /\ ~rec.hit /\ rec.cacheKey = Undefined /\ ~Wrote(i)
            /\ rec.status = 200 /\ rec.route = "asset"
               => \E p \in {proofOf(rec.zk[1][1])} :
                     /\ Returned(rec, "zkFetch", Resolve(p))
                     /\ Returned(rec, "transformForOnchain", Resolve(transformForOnchain(p)))
                     /\ rec.resBody = [json |-> [transformedProof |-> transformForOnchain(p),
                                                 proof |-> p]]
            /\ rec.status = 200 /\ rec.route = "GET /"
               => \E k \in 1..Len(rec.returned) :
                     /\ rec.returned[k].fn = "userTrades" /\ rec.returned[k].out.ok
                     /\ rec.resBody = [view |-> "trades",
                                       locals |-> [trades |-> rec.returned[k].out.val]]

C19_OnlyTradeTouchesCache == []C19_OwnAnswer /\ [][C19_Step]_vars

\* With an entry in the cache, an asset-proof request was answered 200 with its
\* own proof, which is not the cached one.
C19_Witness ==
    \E i \in Trade : \E j \in OfRoute({"asset"}) :
        /\ i < j /\ Wrote(i) /\ DOMAIN cache = {reqs[i].cacheKey}
        /\ reqs[j].status = 200
        /\ reqs[j].resBody # reqs[i].resBody
        /\ Len(writeLog) = 1

(***************************************************************************)
(* C13.  A trade-proof request that finds a malformed cache file under its *)
(* key does not call the prover, is answered with an error status, and the *)
(* process goes on serving.                                                *)
(***************************************************************************)
C13_MalformedSurfaced ==
    \A i \in Trade :
        Threw(reqs[i], "readCache") /\ reqs[i].pc # "rejected"
        => /\ reqs[i].zk = <<>>
           /\ reqs[i].pc = "done" /\ reqs[i].status >= 400
           /\ Alive

(***************************************************************************)
(* C15 as stated: a trade-proof request that missed the cache is answered  *)
(* 200 if and only if generateProof returned Success for it, and is not    *)
(* answered 200 without its cache write.                                   *)
(***************************************************************************)
Missed(i) == reqs[i].route = "trade" /\ ~reqs[i].hit /\ ~Threw(reqs[i], "readCache")
Succeeded(rec) == IF rec.result = None THEN FALSE ELSE rec.result.success
Answered(rec) == rec.pc = "done"

C15_Binary ==
    \A i \in Reqs :
        Missed(i) /\ Answered(reqs[i])
        => /\ reqs[i].status = 200 <=> Succeeded(reqs[i])
           /\ reqs[i].status = 200 => Wrote(i)

(***************************************************************************)
(* C15 amended.  A trade-proof request that missed the cache is answered   *)
(* 200 with {transformedProof, proof} if and only if generateProof         *)
(* returned Success for it and its cache write went through; if the proof  *)
(* was generated, verified and transformed but writeCache threw, it is     *)
(* answered 500 with the error and no write is recorded; if generateProof  *)
(* returned Failure it is answered 400 with the error; 500 otherwise.  A   *)
(* 200 is never sent without the cache write, and nothing is written       *)
(* before the response.                                                    *)
(***************************************************************************)
C15_AllOrNothing ==
    \A i \in Reqs :
        Missed(i)
        => LET rec == reqs[i]
           IN  /\ ~Answered(rec) => rec.status = 0 /\ ~Wrote(i)
               /\ Answered(rec)
                  => /\ rec.status = 200 <=> Succeeded(rec) /\ ~Threw(rec, "writeCache")
                     /\ rec.status = 200
                        => /\ rec.resBody = [json |-> rec.result.data]
                           /\ \E w \in 1..Len(writeLog) :
                                 writeLog[w] = [key |-> rec.cacheKey, data |-> rec.result.data,
                                                req |-> i]
                     /\ Succeeded(rec) /\ Threw(rec, "writeCache")
                        => /\ rec.status = 500
                           /\ rec.resBody = [text |-> ThrownBy(rec, "writeCache")]
                           /\ ~Wrote(i)
                     /\ ~Succeeded(rec)
                        => /\ ~Wrote(i)
                           /\ rec.status = (IF rec.result = None THEN 500 ELSE 400)
                           /\ rec.result # None => rec.resBody = [text |-> rec.result.error]

\* One request whose proof was generated, verified and transformed but whose
\* cache write failed, answered 500, and one answered 200 after its write.
C15_Witness ==
    \E i, j \in Trade :
        /\ Missed(i) /\ Succeeded(reqs[i]) /\ Threw(reqs[i], "writeCache")
        /\ reqs[i].status = 500
        /\ Returned(reqs[i], "verifySignedProof", Resolve(TRUE))
        /\ Missed(j) /\ reqs[j].status = 200 /\ Wrote(j)

====
